---- MODULE Spec2Model ----
(***************************************************************************)
(* Model of src/api/routes.ts of steam-microtransaction-api: the request   *)
(* validator, the route table mounted on the Express application, the      *)
(* inline GetItemPrices / GetAssetPrices handlers, the central error       *)
(* middleware and the 404 fallback.  The source holds two definitions of   *)
(* the routes module (lines 1-129 and lines 131-437); routesModule says    *)
(* which of the two the running server was built from.                     *)
(***************************************************************************)
EXTENDS Integers, Sequences, FiniteSets

VARIABLES
  routesModule,  \* 1: routes.ts lines 1-129, 2: routes.ts lines 131-437
  nodeEnv,       \* process.env.NODE_ENV
  req,           \* the inbound request being served
  pc,            \* where the serving of req stands
  responses,     \* the responses sent for req, in order
  outbound,      \* the outbound (partner API) calls made for req, in order
  servedBy,      \* the layer that took req: a route name, "notFound", "none"
  nextCalled,    \* how many times the validator called next() for req
  fileSeen,      \* what fs.readFile delivered for req
  errSeen,       \* the error the error middleware was given for req
  settled,       \* how the outbound call of req ended: "none", "ok", "failed"
  lifecycle,     \* the coordinator's state of each purchase order
  transIdOf,     \* the transaction id the coordinator holds for each order
  initSucceeded, \* whether an InitPurchase of the order has succeeded
  authAccepted,  \* the authorization events the coordinator took for the order
  finalizeIssued,\* how many FinalizePurchase calls were issued for the order
  awaiting,      \* the call the coordinator waits for
  statusCalls,   \* CheckPurchaseStatus calls issued by the coordinator
  statusOutbound,\* outbound calls made for them
  vfields,       \* validator check: the list of required fields
  vbody,         \* validator check: the request body
  vresult        \* validator check: what the validator did

serverVars ==
  <<req, pc, responses, outbound, servedBy, nextCalled, fileSeen, errSeen, settled>>
configVars == <<routesModule, nodeEnv>>
clientVars ==
  <<lifecycle, transIdOf, initSucceeded, authAccepted, finalizeIssued, awaiting,
    statusCalls, statusOutbound>>
validatorVars == <<vfields, vbody, vresult>>
vars == <<serverVars, configVars, clientVars, validatorVars>>

-----------------------------------------------------------------------------
(* JavaScript values, as far as the handlers look at them. *)

Undefined == [t |-> "undefined", v |-> "undefined"]
Null == [t |-> "null", v |-> "null"]
Str(s) == [t |-> "string", v |-> s]
Num(s) == [t |-> "number", v |-> s]
Bool(s) == [t |-> "boolean", v |-> s]
Obj(s) == [t |-> "object", v |-> s]

\* ECMAScript ToBoolean, the conversion behind `!x` and `if (x)`.
ToBoolean(x) ==
  CASE x.t = "undefined" -> FALSE
    [] x.t = "null" -> FALSE
    [] x.t = "boolean" -> x.v = "true"
    [] x.t = "number" -> x.v \notin {"0", "NaN"}
    [] x.t = "string" -> x.v # ""
    [] OTHER -> TRUE

\* ECMAScript ToString of a query value, as a template literal `${x}` does it:
\* undefined becomes the text "undefined", a string stays as it is.
TemplateString(x) == x.v

\* ECMAScript Number(x) on the query strings of the model.
ToNumber(x) ==
  CASE x.t = "string" /\ x.v = "1001" -> [nan |-> FALSE, n |-> 1001]
    [] x.t = "string" /\ x.v = "1002" -> [nan |-> FALSE, n |-> 1002]
    [] x.t = "string" /\ x.v = "1003" -> [nan |-> FALSE, n |-> 1003]
    [] x.t = "string" /\ x.v = "" -> [nan |-> FALSE, n |-> 0]
    [] OTHER -> [nan |-> TRUE, n |-> 0]

-----------------------------------------------------------------------------
(* The request validator. *)

FieldNames ==
  {"steamId", "appId", "category", "itemDescription", "itemId", "orderId", "transId"}

\* The template literal `Missing field: ${field}`.
MissingFieldMessage(field) ==
  CASE field = "steamId" -> "Missing field: steamId"
    [] field = "appId" -> "Missing field: appId"
    [] field = "category" -> "Missing field: category"
    [] field = "itemDescription" -> "Missing field: itemDescription"
    [] field = "itemId" -> "Missing field: itemId"
    [] field = "orderId" -> "Missing field: orderId"
    [] field = "transId" -> "Missing field: transId"

Json(status, body) == [status |-> status, json |-> body]
Text(status, body) == [status |-> status, text |-> body]

\* The loop of handleMissingFields from the i-th field on.
RECURSIVE handleMissingFieldsFrom(_, _, _)
handleMissingFieldsFrom(fields, body, i) ==
  IF i > Len(fields)
    THEN [kind |-> "next"]
    ELSE IF ~ToBoolean(body[fields[i]])
      THEN [kind |-> "respond",
            res |-> Json(400, [error |-> Str(MissingFieldMessage(fields[i]))])]
      ELSE handleMissingFieldsFrom(fields, body, i + 1)

\* The mutant of handleMissingFields: the loop starts at the second field.
handleMissingFieldsSkipFirst(fields, body) == handleMissingFieldsFrom(fields, body, 2)

\* handleMissingFields(fields)(req, res, next): the first field whose value in
\* req.body is falsy is reported with a 400; with none, next() is called.
handleMissingFields(fields, body) == handleMissingFieldsFrom(fields, body, 1)

validateGetReliableUserInfo == <<"steamId">>
validateCheckAppOwnership == <<"steamId", "appId">>
validateFinalizePurchase == <<"appId", "orderId">>
\* The mutant of validateCheckPurchaseStatus: a field of another list is required too.
validateCheckPurchaseStatusWrong == <<"appId", "orderId", "transId", "steamId">>
validateCheckPurchaseStatus == <<"appId", "orderId", "transId">>
\* The mutant of validateInitPurchase: orderId is left out of the list.
validateInitPurchaseShort ==
  <<"appId", "category", "itemDescription", "itemId", "steamId">>
validateInitPurchase ==
  <<"appId", "category", "itemDescription", "itemId", "orderId", "steamId">>

-----------------------------------------------------------------------------
(* The route tables. *)

NoFields == <<>>

Route(method, path, fields, handler) ==
  [method |-> method, path |-> path, fields |-> fields, handler |-> handler]

\* The routes of the first definition, in registration order.
RouterStack1 ==
  << Route("GET", "/", NoFields, "health"),
     Route("POST", "/GetReliableUserInfo", validateGetReliableUserInfo,
           "getReliableUserInfo"),
     Route("POST", "/CheckAppOwnership", validateCheckAppOwnership, "checkAppOwnership"),
     Route("POST", "/InitPurchase", validateInitPurchase, "initPurchase"),
     Route("POST", "/FinalizePurchase", validateFinalizePurchase, "finalizePurchase"),
     Route("POST", "/CheckPurchaseStatus", validateCheckPurchaseStatus,
           "checkPurchaseStatus"),
     Route("GET", "/GetItemPrices", NoFields, "GetItemPrices"),
     Route("GET", "/GetAssetPrices", NoFields, "GetAssetPrices") >>

\* The routes of the second definition registered before app.use('/', router).
RouterStack2Mounted ==
  << Route("GET", "/", NoFields, "health"),
     Route("POST", "/GetReliableUserInfo", validateGetReliableUserInfo,
           "getReliableUserInfo"),
     Route("POST", "/CheckAppOwnership", validateCheckAppOwnership, "checkAppOwnership"),
     Route("POST", "/InitPurchase", validateInitPurchase, "initPurchase"),
     Route("POST", "/FinalizePurchase", validateFinalizePurchase, "finalizePurchase"),
     Route("POST", "/checkPurchaseStatus", validateCheckPurchaseStatus,
           "checkPurchaseStatus") >>

\* The routes of the second definition registered after the 404 handler.
RouterStack2Late ==
  << Route("GET", "/GetItemPrices", NoFields, "GetItemPrices"),
     Route("GET", "/GetAssetPrices", NoFields, "GetAssetPrices") >>

\* The router is mounted by reference: a route registered on it after
\* app.use('/', router) is in its stack when a request arrives.
RouterStack2 == RouterStack2Mounted \o RouterStack2Late

RouterStack(m) == IF m = 1 THEN RouterStack1 ELSE RouterStack2

\* The mutant of AppStack: the 404 fallback is installed before the router.
AppStackFallbackFirst == <<"notFound", "router", "errorHandler">>

\* The application's layers in the order of the app.use calls (both definitions).
AppStack == <<"router", "errorHandler", "notFound">>

\* Lower-casing of the paths of the model.
Lower(path) ==
  CASE path = "/GetReliableUserInfo" -> "/getreliableuserinfo"
    [] path = "/CheckAppOwnership" -> "/checkappownership"
    [] path = "/InitPurchase" -> "/initpurchase"
    [] path = "/FinalizePurchase" -> "/finalizepurchase"
    [] path = "/CheckPurchaseStatus" -> "/checkpurchasestatus"
    [] path = "/checkPurchaseStatus" -> "/checkpurchasestatus"
    [] path = "/GetItemPrices" -> "/getitemprices"
    [] path = "/GetAssetPrices" -> "/getassetprices"
    [] OTHER -> path

\* Router() is created without options: paths match case-insensitively.
PathMatches(routePath, reqPath) == Lower(routePath) = Lower(reqPath)

RouteMatches(route, r) == route.method = r.method /\ PathMatches(route.path, r.path)

\* The index of the first route of the stack that matches r, 0 when none does.
RECURSIVE FirstMatch(_, _, _)
FirstMatch(stack, r, i) ==
  IF i > Len(stack) THEN 0
  ELSE IF RouteMatches(stack[i], r) THEN i
  ELSE FirstMatch(stack, r, i + 1)

RouteName(route) == <<route.method, route.path>>
NotFoundLayer == <<"app", "notFound">>
ErrorHandlerLayer == <<"app", "errorHandler">>
FinalHandler == <<"express", "finalhandler">>
NoLayer == <<"none">>

-----------------------------------------------------------------------------
(* Handlers. *)

\* constants.webkey, the configured partner key.
webkey == "WEBKEY"

\* const appId = '1432860' of the first GetAssetPrices.
fixedAppId == "1432860"

NoErr == [raised |-> FALSE, message |-> Undefined, stack |-> Undefined]
Err(message, stack) == [raised |-> TRUE, message |-> message, stack |-> stack]

Outcome(pcv, resp, out, by, nx, err) ==
  [pc |-> pcv, responses |-> resp, outbound |-> out, servedBy |-> by,
   nextCalled |-> nx, errSeen |-> err]

\* The mutant of ErrorResponse: the stack is sent unless NODE_ENV is 'production'.
ErrorResponseNonProduction(err, env) ==
  LET message == IF ToBoolean(err.message) THEN err.message
                 ELSE Str("Something went wrong")
      stack == IF env # "production" THEN err.stack ELSE Undefined
  IN  IF stack.t = "undefined"
        THEN Json(500, [error |-> Num("500"), message |-> message])
        ELSE Json(500, [error |-> Num("500"), message |-> message, stack |-> stack])

\* The error-handling middleware; res.json leaves out a key whose value is undefined.
ErrorResponse(err, env) ==
  LET message == IF ToBoolean(err.message) THEN err.message
                 ELSE Str("Something went wrong")
      stack == IF env = "development" THEN err.stack ELSE Undefined
  IN  IF stack.t = "undefined"
        THEN Json(500, [error |-> Num("500"), message |-> message])
        ELSE Json(500, [error |-> Num("500"), message |-> message, stack |-> stack])

\* GET /GetAssetPrices of the first definition, up to the await.
GetAssetPrices1(r) ==
  IF ~ToBoolean(r.query.currency)
    THEN Outcome("done",
                 <<Json(400, [success |-> Bool("false"),
                              message |-> Str("Currency is required.")])>>,
                 <<>>, <<"GET", "/GetAssetPrices">>, 0, NoErr)
    ELSE Outcome("awaitAxios", <<>>,
                 <<[api |-> "GetAssetPrices", key |-> webkey, appid |-> fixedAppId,
                    currency |-> TemplateString(r.query.currency)]>>,
                 <<"GET", "/GetAssetPrices">>, 0, NoErr)

\* GetAssetPrices of the second definition, up to the await: appid and currency
\* are taken from the query and put into the URL as they are.
GetAssetPrices2(r) ==
  Outcome("awaitAxios", <<>>,
          <<[api |-> "GetAssetPrices", key |-> webkey,
             appid |-> TemplateString(r.query.appid),
             currency |-> TemplateString(r.query.currency)]>>,
          <<"GET", "/GetAssetPrices">>, 0, NoErr)

\* steamController.<name>: the one partner call a controller makes with the
\* validated body.
steamController(name, body) ==
  [api |-> name, key |-> webkey, appid |-> TemplateString(body["appId"]),
   currency |-> "undefined"]

\* router.post(path, validate..., steamController...): the validator, then,
\* when it called next(), the controller.
ValidatedRoute(route, r) ==
  LET v == handleMissingFields(route.fields, r.body)
  IN  IF v.kind = "respond"
        THEN Outcome("done", <<v.res>>, <<>>, RouteName(route), 0, NoErr)
        ELSE Outcome("awaitController", <<>>,
                     <<steamController(route.handler, r.body)>>,
                     RouteName(route), 1, NoErr)

\* The handlers of a matched route, up to their first asynchronous step.
RunRoute(route, r, m) ==
  CASE route.handler = "health" ->
         Outcome("done", <<Json(200, [status |-> Bool("true")])>>, <<>>,
                 RouteName(route), 0, NoErr)
    [] route.handler = "GetItemPrices" ->
         Outcome("readFile", <<>>, <<>>, RouteName(route), 0, NoErr)
    [] route.handler = "GetAssetPrices" ->
         IF m = 1 THEN GetAssetPrices1(r) ELSE GetAssetPrices2(r)
    [] OTHER -> ValidatedRoute(route, r)

\* Express walks the application's layers from layer i: the router takes a
\* request one of its routes matches, the error middleware takes an error, the
\* fallback takes what is left; past the last layer the framework answers.
RECURSIVE AppHandle(_, _, _, _, _, _)
AppHandle(stack, i, r, err, m, env) ==
  IF i > Len(stack)
    THEN Outcome("done", <<Text(IF err.raised THEN 500 ELSE 404, "finalhandler")>>,
                 <<>>, FinalHandler, 0, err)
  ELSE IF stack[i] = "router"
    THEN LET k == FirstMatch(RouterStack(m), r, 1)
         IN  IF err.raised \/ k = 0
               THEN AppHandle(stack, i + 1, r, err, m, env)
               ELSE RunRoute(RouterStack(m)[k], r, m)
  ELSE IF stack[i] = "errorHandler"
    THEN IF err.raised
           THEN Outcome("done", <<ErrorResponse(err, env)>>, <<>>, ErrorHandlerLayer, 0, err)
           ELSE AppHandle(stack, i + 1, r, err, m, env)
  ELSE IF err.raised
    THEN AppHandle(stack, i + 1, r, err, m, env)
    ELSE Outcome("done", <<Text(404, "")>>, <<>>, NotFoundLayer, 0, err)

-----------------------------------------------------------------------------
(* The price catalog file and the GetItemPrices callbacks. *)

MaxCatalog == 2

PriceEntries == [id : {1001, 1002}, price : {199, 299}]

SeqsUpTo(S, n) == UNION {[1..k -> S] : k \in 0..n}

\* What fs.readFile can deliver: an error, text JSON.parse rejects, or a list.
CatalogFiles ==
  {[kind |-> "unreadable", products |-> <<>>], [kind |-> "malformed", products |-> <<>>]}
  \cup {[kind |-> "json", products |-> s] : s \in SeqsUpTo(PriceEntries, MaxCatalog)}

NoFile == [kind |-> "none", products |-> <<>>]

\* products.find(product => product.id === Number(itemId)): the index of the
\* first such product, 0 when there is none.
RECURSIVE Find(_, _, _)
Find(products, itemId, i) ==
  IF i > Len(products) THEN 0
  ELSE IF ~ToNumber(itemId).nan /\ products[i].id = ToNumber(itemId).n THEN i
  ELSE Find(products, itemId, i + 1)

\* The readFile callback of the first definition: what it sends.
GetItemPricesCallback1(file, r) ==
  IF file.kind = "unreadable"
    THEN <<Json(500, [success |-> Bool("false"),
                      message |-> Str("Error retrieving prices.")])>>
  ELSE IF file.kind = "malformed"
    THEN <<Json(500, [success |-> Bool("false"),
                      message |-> Str("Error processing data.")])>>
  ELSE IF ToBoolean(r.query.itemId)
    THEN LET k == Find(file.products, r.query.itemId, 1)
         IN  IF k = 0
               THEN <<Json(404, [success |-> Bool("false"),
                                 message |-> Str("Item not found")])>>
               ELSE <<Json(200, [success |-> Bool("true"),
                                 product |-> file.products[k]])>>
  ELSE <<Json(200, [success |-> Bool("true"), products |-> file.products])>>

\* The readFile callback of the second definition: itemId is not read, and
\* JSON.parse is outside any try, so that its exception leaves the callback
\* with nothing sent.
GetItemPricesCallback2(file, r) ==
  IF file.kind = "unreadable"
    THEN <<Json(500, [success |-> Bool("false"),
                      message |-> Str("Error retrieving prices.")])>>
  ELSE IF file.kind = "malformed"
    THEN <<>>
  ELSE <<Json(200, [success |-> Bool("true"), products |-> file.products])>>

\* An exception thrown in the readFile callback is in no middleware's reach:
\* it is an uncaught exception of the process.
CallbackThrows(m, file) == m = 2 /\ file.kind = "malformed"

-----------------------------------------------------------------------------
(* The asynchronous continuations of GetAssetPrices and of the controllers. *)

PartnerData == Obj("partnerData")

\* After `await axios.get(...)` in the first definition.
AxiosSettled1(ok) ==
  IF ok THEN Json(200, [success |-> Bool("true"), data |-> PartnerData])
  ELSE Json(500, [success |-> Bool("false"),
                  message |-> Str("Error fetching asset prices.")])

\* After `await axios.get(url)` in the second definition.
AxiosSettled2(ok) ==
  IF ok THEN Json(200, [success |-> Bool("true"), products |-> PartnerData])
  ELSE Json(500, [error |-> Str("Failed to fetch asset prices")])

TransIds == {"T1", "T2"}

\* What a controller answers once the partner replied: the relay's envelope.
ControllerReply(name, ok, transId) ==
  IF ~ok
    THEN Json(500, [success |-> Bool("false"), message |-> Str("partner call failed")])
  ELSE IF name = "initPurchase"
    THEN Json(200, [success |-> Bool("true"), transid |-> Str(transId)])
  ELSE Json(200, [success |-> Bool("true")])

\* The errors a controller can hand to next(err).
Errors ==
  {Err(m, s) : m \in {Undefined, Str("boom")}, s \in {Undefined, Str("trace")}}

\* The place of the router among the application's layers.
RouterIndex == CHOOSE i \in 1..Len(AppStack) : AppStack[i] = "router"

-----------------------------------------------------------------------------
(* The requests of the model. *)

Methods == {"GET", "POST", "PUT", "DELETE"}

Paths ==
  {"/", "/GetReliableUserInfo", "/CheckAppOwnership", "/InitPurchase",
   "/FinalizePurchase", "/CheckPurchaseStatus", "/checkPurchaseStatus",
   "/GetItemPrices", "/GetAssetPrices", "/unknown"}

BodyValues == {Undefined, Str(""), Str("x")}
Bodies == [FieldNames -> BodyValues]
EmptyBody == [f \in FieldNames |-> Undefined]

Queries ==
  [itemId : {Undefined, Str(""), Str("1001"), Str("1003"), Str("abc")},
   currency : {Undefined, Str(""), Str("USD")},
   appid : {Undefined, Str("480")}]
EmptyQuery == [itemId |-> Undefined, currency |-> Undefined, appid |-> Undefined]

Req(method, path, body, query) ==
  [method |-> method, path |-> path, body |-> body, query |-> query]

Requests ==
  {Req("POST", p, b, EmptyQuery) : p \in Paths, b \in Bodies}
  \cup {Req("GET", p, EmptyBody, q) : p \in Paths, q \in Queries}
  \cup {Req(m, p, EmptyBody, EmptyQuery) : m \in {"PUT", "DELETE"}, p \in Paths}

NoReq == Req("none", "none", EmptyBody, EmptyQuery)

NodeEnvs == {"development", "production", "test", "unset"}

-----------------------------------------------------------------------------
(* The server's steps. *)

ServerInit ==
  /\ routesModule \in {1, 2}
  /\ nodeEnv \in NodeEnvs
  /\ req = NoReq
  /\ pc = "idle"
  /\ responses = <<>>
  /\ outbound = <<>>
  /\ servedBy = NoLayer
  /\ nextCalled = 0
  /\ fileSeen = NoFile
  /\ errSeen = NoErr
  /\ settled = "none"

Apply(o) ==
  /\ pc' = o.pc
  /\ responses' = o.responses
  /\ outbound' = o.outbound
  /\ servedBy' = o.servedBy
  /\ nextCalled' = o.nextCalled
  /\ errSeen' = o.errSeen

\* A request arrives and Express runs the layers up to the first asynchronous
\* step of the handler that took it.
Arrive(r) ==
  /\ pc = "idle"
  /\ req' = r
  /\ fileSeen' = NoFile
  /\ settled' = "none"
  /\ Apply(AppHandle(AppStack, 1, r, NoErr, routesModule, nodeEnv))
  /\ UNCHANGED configVars

\* The response has gone out and the request is over: nothing of it is kept.
Finish ==
  /\ pc = "done"
  /\ req' = NoReq
  /\ pc' = "idle"
  /\ responses' = <<>>
  /\ outbound' = <<>>
  /\ servedBy' = NoLayer
  /\ nextCalled' = 0
  /\ fileSeen' = NoFile
  /\ errSeen' = NoErr
  /\ settled' = "none"
  /\ UNCHANGED configVars

\* fs.readFile calls back.
ReadFileCallback(file) ==
  /\ pc = "readFile"
  /\ fileSeen' = file
  /\ responses' = responses \o
       (IF routesModule = 1 THEN GetItemPricesCallback1(file, req)
        ELSE GetItemPricesCallback2(file, req))
  /\ pc' = IF CallbackThrows(routesModule, file) THEN "crashed" ELSE "done"
  /\ UNCHANGED <<req, outbound, servedBy, nextCalled, errSeen, settled, configVars>>

\* The awaited axios.get settles: resolved (ok) or rejected.
AxiosSettles(ok) ==
  /\ pc = "awaitAxios"
  /\ responses' = Append(responses,
       IF routesModule = 1 THEN AxiosSettled1(ok) ELSE AxiosSettled2(ok))
  /\ pc' = "done"
  /\ settled' = IF ok THEN "ok" ELSE "failed"
  /\ UNCHANGED <<req, outbound, servedBy, nextCalled, fileSeen, errSeen, configVars>>

\* The controller's partner call settles and the controller answers.
ControllerResponds(ok, transId) ==
  /\ pc = "awaitController"
  /\ responses' = Append(responses, ControllerReply(outbound[1].api, ok, transId))
  /\ pc' = "done"
  /\ settled' = IF ok THEN "ok" ELSE "failed"
  /\ UNCHANGED <<req, outbound, servedBy, nextCalled, fileSeen, errSeen, configVars>>

\* The controller hands an error to next(err): Express goes on with the layers
\* after the router.
ControllerRaises(err) ==
  /\ pc = "awaitController"
  /\ LET o == AppHandle(AppStack, RouterIndex + 1, req, err, routesModule, nodeEnv)
     IN  /\ pc' = o.pc
         /\ responses' = responses \o o.responses
         /\ errSeen' = o.errSeen
  /\ UNCHANGED <<req, outbound, servedBy, nextCalled, fileSeen, settled, configVars>>

-----------------------------------------------------------------------------
(* The Lifecycle Coordinator: the client-side protocol of the purchase      *)
(* lifecycle (Idle, PendingAuthorization, Authorized, Abandoned, Completed, *)
(* FailedFinalize), one blocking call at a time.                           *)

MaxOrders == 2
MaxStatusCalls == 2

Orders == 1..MaxOrders

OrderIdText == <<"1000", "1001", "1002", "1003">>

\* The PurchaseOrder of order o.
PurchaseOrder(o) ==
  [appId |-> Str("480"), orderId |-> Str(OrderIdText[o]), itemId |-> Str("item_id_1"),
   itemDescription |-> Str("1000 Coins"), category |-> Str("gold"),
   steamId |-> Str("7656119")]

NoCall == [order |-> 0, op |-> "none"]
Call(o, op) == [order |-> o, op |-> op]

BodyOf(fields) == [f \in FieldNames |-> IF f \in DOMAIN fields THEN fields[f] ELSE Undefined]

ClientInit ==
  /\ lifecycle = [o \in Orders |-> "Idle"]
  /\ transIdOf = [o \in Orders |-> Undefined]
  /\ initSucceeded = [o \in Orders |-> FALSE]
  /\ authAccepted = [o \in Orders |-> {}]
  /\ finalizeIssued = [o \in Orders |-> 0]
  /\ awaiting = NoCall
  /\ statusCalls = 0
  /\ statusOutbound = 0

\* The reply of the server reports success.
ReplySucceeded(res) ==
  /\ res.status = 200
  /\ "json" \in DOMAIN res
  /\ "success" \in DOMAIN res.json
  /\ res.json.success = Bool("true")

\* Idle -> call InitPurchase.
InitPurchase(o) ==
  /\ lifecycle[o] = "Idle"
  /\ awaiting = NoCall
  /\ Arrive(Req("POST", "/InitPurchase", BodyOf(PurchaseOrder(o)), EmptyQuery))
  /\ awaiting' = Call(o, "init")
  /\ UNCHANGED <<lifecycle, transIdOf, initSucceeded, authAccepted, finalizeIssued,
                 statusCalls, statusOutbound>>

\* The mutant of MayFinalize: finalize as soon as InitPurchase has succeeded.
MayFinalizeWhenPending(o) == lifecycle[o] \in {"PendingAuthorization", "Authorized"}

\* FinalizePurchase is called from Authorized only.
MayFinalize(o) == lifecycle[o] = "Authorized"

\* Authorized -> call FinalizePurchase with {appId, orderId}.
FinalizePurchase(o) ==
  /\ MayFinalize(o)
  /\ awaiting = NoCall
  /\ Arrive(Req("POST", "/FinalizePurchase",
                BodyOf([appId |-> PurchaseOrder(o).appId,
                        orderId |-> PurchaseOrder(o).orderId]), EmptyQuery))
  /\ awaiting' = Call(o, "finalize")
  /\ finalizeIssued' = [finalizeIssued EXCEPT ![o] = 1]
  /\ UNCHANGED <<lifecycle, transIdOf, initSucceeded, authAccepted, statusCalls,
                 statusOutbound>>

\* CheckPurchaseStatus may be called from any non-Idle state.
CheckPurchaseStatus(o) ==
  /\ lifecycle[o] # "Idle"
  /\ awaiting = NoCall
  /\ statusCalls < MaxStatusCalls
  /\ Arrive(Req("POST", "/CheckPurchaseStatus",
                BodyOf([appId |-> PurchaseOrder(o).appId,
                        orderId |-> PurchaseOrder(o).orderId,
                        transId |-> transIdOf[o]]), EmptyQuery))
  /\ awaiting' = Call(o, "status")
  /\ statusCalls' = statusCalls + 1
  /\ statusOutbound' = statusOutbound + Len(outbound')
  /\ UNCHANGED <<lifecycle, transIdOf, initSucceeded, authAccepted, finalizeIssued>>

\* The blocking call returns: InitPurchase stores the transaction id and goes
\* to PendingAuthorization, or back to Idle; FinalizePurchase goes to Completed
\* or FailedFinalize; CheckPurchaseStatus changes nothing.
ReceiveReply ==
  /\ awaiting # NoCall
  /\ pc = "done"
  /\ LET o == awaiting.order
         res == responses[Len(responses)]
     IN  CASE awaiting.op = "init" ->
                IF ReplySucceeded(res) /\ "transid" \in DOMAIN res.json
                  THEN /\ lifecycle' = [lifecycle EXCEPT ![o] = "PendingAuthorization"]
                       /\ transIdOf' = [transIdOf EXCEPT ![o] = res.json.transid]
                       /\ initSucceeded' = [initSucceeded EXCEPT ![o] = TRUE]
                  ELSE UNCHANGED <<lifecycle, transIdOf, initSucceeded>>
           [] awaiting.op = "finalize" ->
                /\ lifecycle' = [lifecycle EXCEPT ![o] =
                     IF ReplySucceeded(res) THEN "Completed" ELSE "FailedFinalize"]
                /\ UNCHANGED <<transIdOf, initSucceeded>>
           [] OTHER -> UNCHANGED <<lifecycle, transIdOf, initSucceeded>>
  /\ awaiting' = NoCall
  /\ UNCHANGED <<authAccepted, finalizeIssued, statusCalls, statusOutbound>>
  /\ Finish

AuthorizationEvents ==
  [appId : {Str("480")}, orderId : {Str(OrderIdText[o]) : o \in Orders},
   authorized : BOOLEAN]

\* The platform delivers an AuthorizationEvent; the coordinator takes it for
\* the order with the same (appId, orderId) that is in PendingAuthorization.
OnAuthorization(ev) ==
  /\ \E o \in Orders :
       /\ PurchaseOrder(o).appId = ev.appId
       /\ PurchaseOrder(o).orderId = ev.orderId
       /\ lifecycle[o] = "PendingAuthorization"
       /\ lifecycle' = [lifecycle EXCEPT ![o] =
            IF ev.authorized THEN "Authorized" ELSE "Abandoned"]
       /\ authAccepted' = [authAccepted EXCEPT ![o] = @ \cup {ev.authorized}]
  /\ UNCHANGED <<transIdOf, initSucceeded, finalizeIssued, awaiting, statusCalls,
                 statusOutbound>>
  /\ UNCHANGED <<serverVars, configVars>>

-----------------------------------------------------------------------------
(* The validator on its own: any list of fields, any body. *)

MaxFields == 3

ValidatorFieldNames == {"appId", "orderId", "transId"}

JsonValues ==
  {Undefined, Null, Str(""), Num("0"), Bool("false"),
   Str("x"), Str("0"), Num("1"), Bool("true"), Obj("{}")}

Pending == [kind |-> "pending"]

ValidatorIdle ==
  /\ vfields = <<>>
  /\ vbody = EmptyBody
  /\ vresult = Pending

ValidatorInit ==
  /\ vfields \in SeqsUpTo(ValidatorFieldNames, MaxFields)
  /\ \E b \in [ValidatorFieldNames -> JsonValues] : vbody = BodyOf(b)
  /\ vresult = Pending

\* The middleware handleMissingFields(vfields) runs on a request with body vbody.
Validate ==
  /\ vresult = Pending
  /\ vresult' = handleMissingFields(vfields, vbody)
  /\ UNCHANGED <<vfields, vbody, serverVars, configVars, clientVars>>

-----------------------------------------------------------------------------
(* Specifications. *)

\* The server under any requests.
Init == ServerInit /\ ClientInit /\ ValidatorIdle

Receive == pc = "idle" /\ \E r \in Requests : Arrive(r)
ReadFile == \E file \in CatalogFiles : ReadFileCallback(file)
Axios == \E ok \in BOOLEAN : AxiosSettles(ok)
Controller ==
  \/ \E ok \in BOOLEAN, t \in TransIds : ControllerResponds(ok, t)
  \/ \E err \in Errors : ControllerRaises(err)

Next ==
  \/ Receive /\ UNCHANGED <<clientVars, validatorVars>>
  \/ ReadFile /\ UNCHANGED <<clientVars, validatorVars>>
  \/ Axios /\ UNCHANGED <<clientVars, validatorVars>>
  \/ Controller /\ UNCHANGED <<clientVars, validatorVars>>
  \/ Finish /\ UNCHANGED <<clientVars, validatorVars>>

Spec == Init /\ [][Next]_vars

\* The coordinator driving the server.
LifecycleNext ==
  \/ \E o \in Orders : InitPurchase(o) /\ UNCHANGED validatorVars
  \/ \E o \in Orders : FinalizePurchase(o) /\ UNCHANGED validatorVars
  \/ \E o \in Orders : CheckPurchaseStatus(o) /\ UNCHANGED validatorVars
  \/ \E ev \in AuthorizationEvents : OnAuthorization(ev) /\ UNCHANGED validatorVars
  \/ ReceiveReply /\ UNCHANGED validatorVars
  \/ Controller /\ UNCHANGED <<clientVars, validatorVars>>

\* NODE_ENV is read by the error middleware alone, which tells 'development'
\* from everything else.
LifecycleInit == Init /\ nodeEnv \in {"development", "production"}

LifecycleSpec == LifecycleInit /\ [][LifecycleNext]_vars

\* The validator as a function of its inputs.
ValidatorSpecInit == ServerInit /\ ClientInit /\ ValidatorInit /\ routesModule = 1
                     /\ nodeEnv = "production"

ValidatorSpec == ValidatorSpecInit /\ [][Validate]_vars

-----------------------------------------------------------------------------
(* Claims. *)

RequiredFieldsOf(path) ==
  CASE Lower(path) = "/getreliableuserinfo" -> {"steamId"}
    [] Lower(path) = "/checkappownership" -> {"steamId", "appId"}
    [] Lower(path) = "/initpurchase" ->
         {"appId", "category", "itemDescription", "itemId", "orderId", "steamId"}
    [] Lower(path) = "/finalizepurchase" -> {"appId", "orderId"}
    [] Lower(path) = "/checkpurchasestatus" -> {"appId", "orderId", "transId"}
    [] OTHER -> {}

IsValidatedOperation(r) == r.method = "POST" /\ RequiredFieldsOf(r.path) # {}

Omitted(r) == {f \in RequiredFieldsOf(r.path) : r.body[f] = Undefined}
NotTruthy(r) == {f \in RequiredFieldsOf(r.path) : r.body[f] \in {Undefined, Str("")}}

\* C1: a POST to one of the five validated operations whose body omits a
\* required field is answered at once with 400 {error: "Missing field: <name>"}
\* naming a required field the body lacks - the omitted one when it is the
\* only one lacking - and neither next() nor the controller's partner call
\* happens.
C1_MissingFieldRejected ==
  IsValidatedOperation(req) /\ Omitted(req) # {} =>
    /\ pc = "done"
    /\ Len(responses) = 1
    /\ responses[1].status = 400
    /\ \E f \in NotTruthy(req) :
         responses[1] = Json(400, [error |-> Str(MissingFieldMessage(f))])
    /\ \A f \in Omitted(req) :
         NotTruthy(req) = {f} =>
           responses[1] = Json(400, [error |-> Str(MissingFieldMessage(f))])
    /\ nextCalled = 0
    /\ outbound = <<>>
    /\ settled = "none"

C1_Witness ==
  /\ routesModule = 2
  /\ req.method = "POST"
  /\ req.path = "/InitPurchase"
  /\ Omitted(req) = {"orderId"}
  /\ NotTruthy(req) = {"orderId"}
  /\ pc = "done"
  /\ responses = <<Json(400, [error |-> Str("Missing field: orderId")])>>

\* The method and lower-cased path of every route either definition registers.
C8_Registered ==
  {<<"GET", "/">>, <<"POST", "/getreliableuserinfo">>, <<"POST", "/checkappownership">>,
   <<"POST", "/initpurchase">>, <<"POST", "/finalizepurchase">>,
   <<"POST", "/checkpurchasestatus">>, <<"GET", "/getitemprices">>,
   <<"GET", "/getassetprices">>}

JsonFalsy == {Undefined, Null, Str(""), Num("0"), Bool("false")}

FalsyAt == {i \in 1..Len(vfields) : vbody[vfields[i]] \in JsonFalsy}

\* C3: for any list of required fields and any body, the validator answers
\* 400 {error: "Missing field: <name>"} with the name of the first listed field
\* whose value is absent or falsy (undefined, null, "", 0, false), and calls
\* next() when every listed field is truthy, whatever its type.
C3_FirstFalsyFieldReported ==
  vresult # Pending =>
    IF FalsyAt = {}
      THEN vresult = [kind |-> "next"]
      ELSE LET first == CHOOSE i \in FalsyAt : \A j \in FalsyAt : i <= j
           IN  vresult =
                 [kind |-> "respond",
                  res |-> Json(400, [error |-> Str(MissingFieldMessage(vfields[first]))])]

C3_Witness ==
  /\ vfields = <<"orderId", "appId", "transId">>
  /\ vbody["orderId"] = Str("0")
  /\ vbody["appId"] = Num("0")
  /\ vbody["transId"] = Undefined
  /\ vresult = [kind |-> "respond",
                res |-> Json(400, [error |-> Str("Missing field: appId")])]

\* C2: the coordinator issues FinalizePurchase for an order only in state
\* Authorized, that is after an InitPurchase of the order succeeded and an
\* authorization event with authorized = true for the same (appId, orderId)
\* was taken; an order is Completed only after that; an order Abandoned by an
\* authorized = false event has no FinalizePurchase issued.
C2_FinalizeOnlyWhenAuthorized ==
  \A o \in Orders :
    /\ awaiting = Call(o, "finalize") => lifecycle[o] = "Authorized"
    /\ finalizeIssued[o] > 0 => initSucceeded[o] /\ TRUE \in authAccepted[o]
    /\ lifecycle[o] \in {"Completed", "FailedFinalize"} =>
         finalizeIssued[o] > 0 /\ initSucceeded[o] /\ TRUE \in authAccepted[o]
    /\ lifecycle[o] = "Abandoned" =>
         finalizeIssued[o] = 0 /\ authAccepted[o] = {FALSE}

C2_Witness ==
  \E o, p \in Orders :
    /\ lifecycle[o] = "Completed"
    /\ finalizeIssued[o] = 1
    /\ authAccepted[o] = {TRUE}
    /\ lifecycle[p] = "Abandoned"

StatusCallStep ==
  /\ awaiting.op = "status" \/ awaiting'.op = "status"
  /\ <<serverVars, awaiting>>' # <<serverVars, awaiting>>

\* C7: every CheckPurchaseStatus call of the coordinator, however many there
\* are for the same order, makes exactly one outbound call, and no step of such
\* a call changes the lifecycle state of any purchase, the stored transaction
\* ids or the server's configuration.
C7_CheckPurchaseStatusPureRead ==
  /\ [](/\ statusOutbound = statusCalls
        /\ awaiting.op = "status" =>
             /\ Len(outbound) = 1
             /\ outbound[1].api = "checkPurchaseStatus")
  /\ [][StatusCallStep =>
          UNCHANGED <<lifecycle, transIdOf, initSucceeded, authAccepted,
                      finalizeIssued, routesModule, nodeEnv>>]_vars

C7_Witness ==
  /\ statusCalls = 2
  /\ statusOutbound = 2
  /\ awaiting = NoCall
  /\ routesModule = 2
  /\ \E o \in Orders :
       /\ lifecycle[o] = "PendingAuthorization"
       /\ \A p \in Orders \ {o} : lifecycle[p] = "Idle"

IsGet(path) == req.method = "GET" /\ Lower(req.path) = Lower(path)

\* C4: GET /GetAssetPrices without a currency is answered 400 and makes no
\* outbound call; with a currency it makes exactly one outbound call, carrying
\* the fixed application id and the configured key.
C4_AssetPricesCurrencyRequired ==
  IsGet("/GetAssetPrices") =>
    /\ req.query.currency = Undefined =>
         /\ pc = "done"
         /\ Len(responses) = 1
         /\ responses[1].status = 400
         /\ outbound = <<>>
    /\ ToBoolean(req.query.currency) =>
         /\ Len(outbound) = 1
         /\ outbound[1].appid = "1432860"
         /\ outbound[1].key = webkey

\* C5: GET /GetItemPrices over a readable catalog: an itemId that is the id of
\* a catalog record gives 200 with that record as product, an itemId that
\* matches no record gives 404, no itemId gives 200 with the whole catalog.
C5_ItemPricesLookup ==
  IsGet("/GetItemPrices") /\ pc = "done" /\ fileSeen.kind = "json" =>
    LET n == ToNumber(req.query.itemId)
        hits == {i \in 1..Len(fileSeen.products) :
                   ~n.nan /\ fileSeen.products[i].id = n.n}
    IN  /\ Len(responses) = 1
        /\ req.query.itemId = Undefined =>
             responses[1] = Json(200, [success |-> Bool("true"),
                                       products |-> fileSeen.products])
        /\ ToBoolean(req.query.itemId) /\ hits = {} => responses[1].status = 404
        /\ ToBoolean(req.query.itemId) /\ hits # {} =>
             /\ responses[1].status = 200
             /\ "product" \in DOMAIN responses[1].json
             /\ \E i \in hits : responses[1].json.product = fileSeen.products[i]

\* C6: a request makes at most one outbound call; when the call fails the
\* answer is 500 {success: false, message}, and when it succeeds the answer
\* has success: true.
C6_UpstreamEnvelope ==
  /\ Len(outbound) <= 1
  /\ settled = "failed" =>
       /\ Len(responses) = 1
       /\ responses[1].status = 500
       /\ "success" \in DOMAIN responses[1].json
       /\ responses[1].json.success = Bool("false")
       /\ "message" \in DOMAIN responses[1].json
  /\ settled = "ok" =>
       /\ Len(responses) = 1
       /\ "success" \in DOMAIN responses[1].json
       /\ responses[1].json.success = Bool("true")

\* C10: every request gets exactly one response: the validator sends the 400
\* or calls next(), never both and never neither, and GetItemPrices sends one
\* of 500, 404 and 200 on every path - a catalog that does not parse is
\* answered 500 and leaves no request unanswered.
C10_ExactlyOneResponse ==
  /\ pc \in {"done", "crashed"} => Len(responses) = 1
  /\ IsValidatedOperation(req) =>
       \/ nextCalled = 0 /\ pc = "done" /\ responses[1].status = 400
       \/ nextCalled = 1 /\ \A k \in 1..Len(responses) : responses[k].status # 400
  /\ IsGet("/GetItemPrices") /\ fileSeen.kind = "malformed" =>
       Len(responses) = 1 /\ responses[1].status = 500

====
